---- MODULE Spec2Model ----
(***************************************************************************)
(* Model of mcp-ollama: the Fastify HTTP front end (src/http-server.ts:    *)
(* bearer-token hook, the POST/GET/DELETE routes on /mcp and the           *)
(* process-wide session map) and the Ollama client (src/tools.ts, present  *)
(* in two revisions: unnamed/part_000 and unnamed/part_001).               *)
(*                                                                         *)
(* JavaScript strings that the code inspects (startsWith, slice, trim,     *)
(* length) are sequences of one-character strings; strings that are only   *)
(* compared or used as keys are TLA+ strings.  An optional value is <<>>   *)
(* (undefined) or <<v>>.                                                   *)
(***************************************************************************)
EXTENDS Integers, Sequences, FiniteSets, TLC

\* ------------------------------------------------------------------ bounds
MaxRequests == 2      \* requests in flight at once
MaxTransports == 2    \* StreamableHTTPServerTransport objects ever constructed
MaxUuids == 2         \* values randomUUID() can return

RequestIds == 1..MaxRequests
TransportIds == 1..MaxTransports

\* ------------------------------------------------------- optional values
Undefined == <<>>
Some(v) == <<v>>
Val(o) == o[1]

\* ------------------------------------------------ JavaScript string helpers
\* String.prototype.startsWith
StartsWith(s, p) == Len(s) >= Len(p) /\ SubSeq(s, 1, Len(p)) = p
\* String.prototype.slice(n), n >= 0
Slice(s, n) == SubSeq(s, n + 1, Len(s))

\* ------------------------------------------------------------ http-server
Bearer_ == <<"B", "e", "a", "r", "e", "r", " ">>
\* the configured secret, process.env.MCP_AUTH_TOKEN || 'dev-token-change-me'
AUTH_TOKEN == <<"k", "1">>

\* Authorization header values a client can send: none, another scheme, the
\* scheme in lower case, a token that is a prefix of the secret, the secret
AuthHeaders ==
  { Undefined,
    Some(<<"B", "a", "s", "i", "c", " ", "k", "1">>),
    Some(<<"b", "e", "a", "r", "e", "r", " ", "k", "1">>),
    Some(Bearer_ \o <<"k">>),
    Some(Bearer_ \o AUTH_TOKEN) }

\* values randomUUID() can return
Uuids == { "uuid-" \o ToString(i) : i \in 1..MaxUuids }
\* names every plain object inherits from Object.prototype
ObjectPrototypeKeys == { "constructor", "toString", "valueOf", "hasOwnProperty", "__proto__" }
\* mcp-session-id header values a client can send
SessionHeaders == { Undefined, Some(""), Some("constructor") } \cup { Some(u) : u \in Uuids }

\* (method, body) of a request; only a POST carries a body
RequestKinds ==
  { [method |-> "POST", body |-> "initialize"],
    [method |-> "POST", body |-> "other"],
    [method |-> "GET", body |-> "none"],
    [method |-> "DELETE", body |-> "none"] }

\* isInitializeRequest(request.body)
isInitializeRequest(body) == body = "initialize"

NoReply == [status |-> 0, code |-> 0, id |-> "none", by |-> "none"]
\* reply.status(status).send({jsonrpc: '2.0', error: {code, message}, id: null}),
\* sent by the hook, by a route or by a route's catch block
Reply(status, code, by) == [status |-> status, code |-> code, id |-> "null", by |-> by]
\* the response is written by the transport on reply.raw; its content is the SDK's
TransportReply == [status |-> 0, code |-> 0, id |-> "rpc", by |-> "transport"]

IdleRequest ==
  [pc |-> "idle", method |-> "none", body |-> "none", sid |-> Undefined,
   auth |-> Undefined, transport |-> 0]

\* the requests a client can send.  With AUTH_ENABLED false the hook returns
\* before it reads the Authorization header, which is then left out.
Arrivals(enabled) ==
  { [pc |-> "idle", method |-> kind.method, body |-> kind.body, sid |-> sid,
     auth |-> auth, transport |-> 0] :
      kind \in RequestKinds, sid \in SessionHeaders,
      auth \in IF enabled THEN AuthHeaders ELSE {Undefined} }

\* ------------------------------------------------------------------ tools
MaxResultsProbe == 22   \* largest max_results a caller tries

MAX_RESULTS_DEFAULT == 5
\* MAX_RESULTS_LIMIT of the two revisions of src/tools.ts
MAX_RESULTS_LIMIT_000 == 10
MAX_RESULTS_LIMIT_001 == 20
MAX_RESULTS_LIMIT(variant) ==
  IF variant = "part_000" THEN MAX_RESULTS_LIMIT_000 ELSE MAX_RESULTS_LIMIT_001

\* characters String.prototype.trim removes
WhiteSpace == {" ", "\t", "\n"}

RECURSIVE TrimStart(_)
TrimStart(s) ==
  IF s # <<>> /\ Head(s) \in WhiteSpace THEN TrimStart(Tail(s)) ELSE s

RECURSIVE TrimEnd(_)
TrimEnd(s) ==
  IF s # <<>> /\ s[Len(s)] \in WhiteSpace THEN TrimEnd(SubSeq(s, 1, Len(s) - 1)) ELSE s

\* String.prototype.trim
Trim(s) == TrimEnd(TrimStart(s))

\* query arguments a caller can pass: missing, or a string
Queries ==
  { Undefined,
    Some(<<>>),
    Some(<<" ">>),
    Some(<<"\t", " ">>),
    Some(<<"a">>),
    Some(<<" ", "a", " ">>) }

\* A number is held in tenths, so that 25 is 2.5 and 30 is 3.
\* max_results arguments a caller can pass: missing, not a number, or a number
\* from -1 to MaxResultsProbe in steps of one half
MaxResultsArgs ==
  { [kind |-> k, tenths |-> 0] : k \in {"undefined", "null", "string", "NaN"} }
    \cup { [kind |-> "number", tenths |-> 5 * h] : h \in -2..(2 * MaxResultsProbe) }

WebSearchInputs == { [query |-> q, max_results |-> m] : q \in Queries, m \in MaxResultsArgs }

\* z.string().trim().min(1) in part_000, z.string().min(1) in part_001:
\* the parsed query, or Undefined when the check fails
ParseQuery(variant, q) ==
  IF q = Undefined THEN Undefined
  ELSE IF variant = "part_000"
       THEN (IF Len(Trim(Val(q))) >= 1 THEN Some(Trim(Val(q))) ELSE Undefined)
       ELSE (IF Len(Val(q)) >= 1 THEN q ELSE Undefined)

\* z.number().int().min(1).max(MAX_RESULTS_LIMIT).default(MAX_RESULTS_DEFAULT):
\* the parsed number (an integer), or Undefined when a check fails
ParseMaxResultsNoInt(variant, m) ==
  IF m.kind = "undefined" THEN Some(MAX_RESULTS_DEFAULT)
  ELSE IF m.kind # "number" THEN Undefined
  ELSE IF m.tenths < 10 THEN Undefined
  ELSE IF m.tenths > MAX_RESULTS_LIMIT(variant) * 10 THEN Undefined
  ELSE Some(m.tenths \div 10)

ParseMaxResults(variant, m) ==
  IF m.kind = "undefined" THEN Some(MAX_RESULTS_DEFAULT)
  ELSE IF m.kind # "number" THEN Undefined
  ELSE IF m.tenths % 10 # 0 THEN Undefined
  ELSE IF m.tenths < 10 THEN Undefined
  ELSE IF m.tenths > MAX_RESULTS_LIMIT(variant) * 10 THEN Undefined
  ELSE Some(m.tenths \div 10)

\* webSearchPayloadSchema.parse(payload): the parsed payload, or Undefined
\* when it throws a ZodError
webSearchPayloadSchema(variant, payload) ==
  LET q == ParseQuery(variant, payload.query)
      m == ParseMaxResults(variant, payload.max_results)
  IN IF q = Undefined \/ m = Undefined THEN Undefined
     ELSE Some([query |-> Val(q), max_results |-> Val(m)])

\* -------------------------------------------------------------- web_fetch
UpperCase == <<"A", "B", "C", "D", "E", "F", "G", "H", "I", "J", "K", "L", "M",
               "N", "O", "P", "Q", "R", "S", "T", "U", "V", "W", "X", "Y", "Z">>
LowerCase == <<"a", "b", "c", "d", "e", "f", "g", "h", "i", "j", "k", "l", "m",
               "n", "o", "p", "q", "r", "s", "t", "u", "v", "w", "x", "y", "z">>
Alpha == { UpperCase[i] : i \in 1..26 } \cup { LowerCase[i] : i \in 1..26 }
Digits == {"0", "1", "2", "3", "4", "5", "6", "7", "8", "9"}

\* String.prototype.toLowerCase, as the i flag of a regular expression applies it
ToLowerCase(s) ==
  [i \in 1..Len(s) |->
     IF \E k \in 1..26 : UpperCase[k] = s[i]
     THEN LowerCase[CHOOSE k \in 1..26 : UpperCase[k] = s[i]]
     ELSE s[i]]

Http_ == <<"h", "t", "t", "p", ":", "/", "/">>
Https_ == <<"h", "t", "t", "p", "s", ":", "/", "/">>

\* URL_PROTOCOL_REGEX.test(value), with /^https?:\/\//i
URL_PROTOCOL_REGEX(value) ==
  StartsWith(ToLowerCase(value), Http_) \/ StartsWith(ToLowerCase(value), Https_)

\* index of the first element of s that is in set, 0 if there is none
IndexOf(s, set) ==
  IF \E i \in 1..Len(s) : s[i] \in set
  THEN CHOOSE i \in 1..Len(s) : s[i] \in set /\ \A j \in 1..(i - 1) : s[j] \notin set
  ELSE 0

\* index of the last ":" of s, 0 if there is none
LastColon(s) ==
  IF \E i \in 1..Len(s) : s[i] = ":"
  THEN CHOOSE i \in 1..Len(s) : s[i] = ":" /\ \A j \in (i + 1)..Len(s) : s[j] # ":"
  ELSE 0

\* schemes whose URLs need a host (the URL Standard's special schemes but file)
SpecialSchemes ==
  { <<"h", "t", "t", "p">>, <<"h", "t", "t", "p", "s">>, <<"f", "t", "p">>,
    <<"w", "s">>, <<"w", "s", "s">> }
\* code points a host must not contain
ForbiddenHostCodePoints ==
  {" ", "\t", "\n", "#", "/", ":", "<", ">", "?", "@", "[", "\\", "]", "^", "|", "%"}

RECURSIVE SkipSlashes(_)
SkipSlashes(s) ==
  IF s # <<>> /\ Head(s) \in {"/", "\\"} THEN SkipSlashes(Tail(s)) ELSE s

\* new URL(value) does not throw: the value, without the white space around
\* it, has a scheme, and after a special scheme a host and a numeric port
URLParses(value) ==
  LET t == Trim(value)
      colon == IndexOf(t, {":"})
  IN /\ colon >= 2
     /\ t[1] \in Alpha
     /\ \A j \in 2..(colon - 1) : t[j] \in Alpha \cup Digits \cup {"+", "-", "."}
     /\ ToLowerCase(SubSeq(t, 1, colon - 1)) \in SpecialSchemes =>
          LET rest == SkipSlashes(SubSeq(t, colon + 1, Len(t)))
              stop == IndexOf(rest, {"/", "?", "#", "\\"})
              authority == IF stop = 0 THEN rest ELSE SubSeq(rest, 1, stop - 1)
              portAt == LastColon(authority)
              host == IF portAt = 0 THEN authority ELSE SubSeq(authority, 1, portAt - 1)
              port == IF portAt = 0 THEN <<>>
                      ELSE SubSeq(authority, portAt + 1, Len(authority))
          IN /\ host # <<>>
             /\ \A j \in 1..Len(host) : host[j] \notin ForbiddenHostCodePoints
             /\ \A j \in 1..Len(port) : port[j] \in Digits

Page == <<"a", ".", "b", "/", "p">>
\* url arguments a caller can pass: missing, or a string
UrlArgs ==
  { Undefined,
    Some(<<>>),
    Some(<<" ">>),
    Some(Page),
    Some(<<" ">> \o Page \o <<" ">>),
    Some(Https_ \o Page),
    Some(<<" ">> \o Https_ \o Page),
    Some(<<"H", "T", "T", "P", ":", "/", "/">> \o Page),
    Some(Http_),
    Some(<<"a", " ", "b">>),
    Some(<<"f", "t", "p", ":", "/", "/">> \o Page) }

\* the url member of webFetchPayloadSchema: the parsed url, or Undefined when
\* a check fails.  part_000: min(1), trim, prefix 'https://' unless the value
\* is non-empty and has an http(s) scheme, then new URL(value) must not throw.
\* part_001: z.string().url(), which is new URL(value) on the value as given.
ParseUrl(variant, u) ==
  IF u = Undefined THEN Undefined
  ELSE IF variant = "part_000"
       THEN IF Len(Val(u)) < 1 THEN Undefined
            ELSE LET value == Trim(Val(u))
                     coerced == IF value # <<>> /\ URL_PROTOCOL_REGEX(value)
                                THEN value ELSE Https_ \o value
                 IN IF URLParses(coerced) THEN Some(coerced) ELSE Undefined
       ELSE (IF URLParses(Val(u)) THEN u ELSE Undefined)

\* webFetchPayloadSchema.parse(payload): the parsed payload, or Undefined
\* when it throws a ZodError
webFetchPayloadSchema(variant, payload) ==
  LET u == ParseUrl(variant, payload.url)
  IN IF u = Undefined THEN Undefined ELSE Some([url |-> Val(u)])

\* ------------------------------------------------------------ postToOllama
\* error.response.data: a string, or the object {error: value}
ResponseBodies ==
  { [type |-> "string", value |-> "overloaded"],
    [type |-> "string", value |-> ""],
    [type |-> "object", value |-> "busy"] }
NoData == [type |-> "none", value |-> ""]

\* JSON.stringify(data) of the object {error: value}
JSONstringify(data) == "{\"error\":\"" \o data.value \o "\"}"

\* what the call of axiosClient.post can end with: a 2xx response whose body
\* has the expected shape or not, a response with another status, an
\* AxiosError without response (network failure, the 15 s timeout), an
\* AxiosError without request (the request could not be set up), or a throw
\* of something that is no AxiosError (an Error with a message, or another value)
UpstreamStatuses == {400, 503}
UpstreamEvents ==
  { [kind |-> "2xx", status |-> 200, wellFormed |-> w, data |-> NoData,
     message |-> Undefined] : w \in BOOLEAN }
    \cup { [kind |-> "status", status |-> st, wellFormed |-> FALSE, data |-> d,
            message |-> Some("Request failed with status code " \o ToString(st))] :
              st \in UpstreamStatuses, d \in ResponseBodies }
    \cup { [kind |-> "no-response", status |-> 0, wellFormed |-> FALSE, data |-> NoData,
            message |-> m] : m \in {Some("timeout of 15000ms exceeded"), Some("Network Error")} }
    \cup { [kind |-> "setup", status |-> 0, wellFormed |-> FALSE, data |-> NoData,
            message |-> m] : m \in {Undefined, Some("Invalid URL")} }
    \cup { [kind |-> "thrown", status |-> 0, wellFormed |-> FALSE, data |-> NoData,
            message |-> m] : m \in {Undefined, Some("boom")} }
NoEvent ==
  [kind |-> "none", status |-> 0, wellFormed |-> FALSE, data |-> NoData, message |-> Undefined]

\* OllamaApiError.status when the constructor got no status
NoStatus == 0
Outcome(kind, status, message) == [kind |-> kind, status |-> status, message |-> message]

\* formatAxiosError
formatAxiosErrorAxiosMessage(ev) ==
  IF ev.kind = "status"
  THEN Outcome("OllamaApiError", ev.status, Val(ev.message))
  ELSE IF ev.kind = "no-response"
  THEN Outcome("OllamaApiError", NoStatus, "No response received from Ollama API.")
  ELSE Outcome("OllamaApiError", NoStatus,
               IF ev.message # Undefined THEN Val(ev.message) ELSE "Unknown Axios error.")

formatAxiosErrorRequestFirst(ev) ==
  IF ev.kind \in {"status", "no-response"}
  THEN Outcome("OllamaApiError", NoStatus, "No response received from Ollama API.")
  ELSE Outcome("OllamaApiError", NoStatus,
               IF ev.message # Undefined THEN Val(ev.message) ELSE "Unknown Axios error.")

formatAxiosError(ev) ==
  IF ev.kind = "status"
  THEN Outcome("OllamaApiError", ev.status,
               "Ollama API responded with status " \o ToString(ev.status) \o ": "
                 \o (IF ev.data.type = "string" THEN ev.data.value ELSE JSONstringify(ev.data)))
  ELSE IF ev.kind = "no-response"
  THEN Outcome("OllamaApiError", NoStatus, "No response received from Ollama API.")
  ELSE Outcome("OllamaApiError", NoStatus,
               IF ev.message # Undefined THEN Val(ev.message) ELSE "Unknown Axios error.")

\* the try block of postToOllama once axiosClient.post has settled
postToOllamaSettled(variant, ev) ==
  IF ev.kind = "2xx"
  THEN IF variant = "part_000" /\ ~ev.wellFormed
       THEN \* responseSchema.parse throws a ZodError, which the catch rewraps
            Outcome("OllamaApiError", NoStatus, "ZodError.message")
       ELSE Outcome("result", NoStatus, "response.data")
  ELSE IF ev.kind = "thrown"
  THEN Outcome("OllamaApiError", NoStatus,
               IF ev.message # Undefined THEN Val(ev.message)
               ELSE "Unknown error while calling Ollama API.")
  ELSE formatAxiosError(ev)

\* the number of calls of axiosClient.post that postToOllama makes:
\* payloadSchema.parse throws before the try block is entered
postToOllamaPostsBeforeParse(parsed) == 1

postToOllamaPosts(parsed) == IF parsed = Undefined THEN 0 ELSE 1

\* the two revisions of src/tools.ts
ToolsVariants == {"part_000", "part_001"}

NoInput == [query |-> Undefined, max_results |-> [kind |-> "undefined", tenths |-> 0]]
IdleCall ==
  [pc |-> "idle", variant |-> "none", tool |-> "none", input |-> NoInput,
   url |-> Undefined, sent |-> Undefined, ev |-> NoEvent,
   outcome |-> Outcome("none", NoStatus, "")]

VARIABLES
  authEnabled,   \* AUTH_ENABLED
  transports,    \* the session map: own keys -> transport
  tr,            \* the transport objects: state and sessionId
  issued,        \* values randomUUID() has returned so far
  removed,       \* history: keys deleted from the session map by onclose
  deleted,       \* history: session ids whose DELETE the transport has handled
  req,           \* the requests being handled, in the order of their arrival
  last,          \* history: the request answered by the last step and its answer
  call,          \* the webSearch invocation in progress, and the revision of
                 \* src/tools.ts that runs it
  posts,         \* outbound POSTs made by the invocation in progress
  caller,        \* the transport of the session whose tools/call started the
                 \* last invocation, 0 when it was called directly
  emit           \* history: what became of the result of that tools/call

httpVars == <<authEnabled, transports, tr, issued, removed, deleted, req, last>>
toolVars == <<call, posts, caller, emit>>
vars ==
  <<authEnabled, transports, tr, issued, removed, deleted, req, last, call, posts, caller,
    emit>>

\* the onRequest hook: "pass", or the reply it sends
AuthHookMissingPrefixCheck(enabled, authHeader) ==
  IF ~enabled THEN "pass"
  ELSE IF authHeader = Undefined \/ Val(authHeader) = <<>> THEN "401"
  ELSE IF Slice(Val(authHeader), 7) # AUTH_TOKEN THEN "403"
  ELSE "pass"

AuthHookPrefixMatch(enabled, authHeader) ==
  IF ~enabled THEN "pass"
  ELSE IF authHeader = Undefined \/ Val(authHeader) = <<>>
          \/ ~StartsWith(Val(authHeader), Bearer_) THEN "401"
  ELSE IF ~StartsWith(AUTH_TOKEN, Slice(Val(authHeader), 7)) THEN "403"
  ELSE "pass"

AuthHook(enabled, authHeader) ==
  IF ~enabled THEN "pass"
  ELSE IF authHeader = Undefined \/ Val(authHeader) = <<>>
          \/ ~StartsWith(Val(authHeader), Bearer_) THEN "401"
  ELSE IF Slice(Val(authHeader), 7) # AUTH_TOKEN THEN "403"
  ELSE "pass"

AuthReplyTellingSessions(verdict) ==
  IF verdict = "401" THEN Reply(401, -32001, "hook")
  ELSE IF DOMAIN transports = {} THEN Reply(403, -32002, "hook")
  ELSE Reply(403, -32000, "hook")

AuthReply(verdict) ==
  IF verdict = "401" THEN Reply(401, -32001, "hook") ELSE Reply(403, -32002, "hook")

\* !sessionId : undefined and '' are falsy
Falsy(sid) == sid = Undefined \/ Val(sid) = ""

\* transports[sessionId] on the plain object {} : an own key, else what
\* Object.prototype provides, else undefined
LookupLatestTransport(map, key) ==
  IF key \in DOMAIN map
  THEN [kind |-> "transport",
        t |-> CHOOSE t \in { map[k] : k \in DOMAIN map } :
                \A k \in DOMAIN map : map[k] <= t]
  ELSE IF key \in ObjectPrototypeKeys THEN [kind |-> "inherited", t |-> 0]
  ELSE [kind |-> "undefined", t |-> 0]

Lookup(map, key) ==
  IF key \in DOMAIN map THEN [kind |-> "transport", t |-> map[key]]
  ELSE IF key \in ObjectPrototypeKeys THEN [kind |-> "inherited", t |-> 0]
  ELSE [kind |-> "undefined", t |-> 0]

\* sessionId && transports[sessionId]
ResolvesAnyId(map, sid) == ~Falsy(sid)

Resolves(map, sid) == ~Falsy(sid) /\ Lookup(map, Val(sid)).kind # "undefined"

\* the three branches of the POST route
PostBranchImplicitSession(map, sid, body) ==
  IF Resolves(map, sid) THEN "reuse"
  ELSE IF Falsy(sid) THEN "initialize"
  ELSE "reject"

PostBranch(map, sid, body) ==
  IF Resolves(map, sid) THEN "reuse"
  ELSE IF Falsy(sid) /\ isInitializeRequest(body) THEN "initialize"
  ELSE "reject"

\* sessionIdGenerator: () => randomUUID()
sessionIdGeneratorRepeating(used) == Uuids

sessionIdGenerator(used) == Uuids \ used

\* onsessioninitialized: transports[id] = transport
onsessioninitializedReplacing(map, id, t) == [k \in {id} |-> t]

onsessioninitialized(map, id, t) ==
  [k \in DOMAIN map \cup {id} |-> IF k = id THEN t ELSE map[k]]

\* transport.onclose: if (transport.sessionId) delete transports[transport.sessionId]
oncloseKeepingEntry(map, t) == map

oncloseClearingMap(map, t) ==
  IF tr[t].sessionId # Undefined THEN [k \in {} |-> 0] ELSE map

onclose(map, t) ==
  IF tr[t].sessionId # Undefined
  THEN [k \in DOMAIN map \ {Val(tr[t].sessionId)} |-> map[k]]
  ELSE map

BadSession == Reply(400, -32000, "route")
InternalError == Reply(500, -32603, "catch")

\* the catch block of a route: the reply the client gets, given reply.sent
catchBlockAlwaysSends(sent) == InternalError

catchBlockBadSession(sent) == IF sent THEN TransportReply ELSE BadSession

catchBlock(sent) == IF sent THEN TransportReply ELSE InternalError

\* what fastify.log.error(error, ...) gets: the message of the caught error
NoError == "none"
NotAFunction == "transport.handleRequest is not a function"
ConnectFailed == "connect failed"
HandleRequestFailed == "handleRequest failed"

\* the answer to request a, given by transport t or by the server itself (t = 0)
Answered(a, t, reply) ==
  [method |-> a.method, body |-> a.body, sid |-> a.sid, auth |-> a.auth,
   transport |-> t, reply |-> reply, error |-> NoError, sent |-> FALSE]

\* the answer to request a when its route caught an error; sent is reply.sent
\* at that moment
Caught(a, t, error, sent) ==
  [Answered(a, t, catchBlock(sent)) EXCEPT !.error = error, !.sent = sent]

\* the slot a request that arrives now is put in: the first one not in use
NextSlot(r) == req[r].pc = "idle" /\ \A i \in 1..(r - 1) : req[i].pc # "idle"

\* the requests in flight once request r is answered, in the order of arrival
Remove(r) ==
  [i \in RequestIds |->
     IF i < r THEN req[i]
     ELSE IF i < MaxRequests THEN req[i + 1]
     ELSE IdleRequest]

\* request r, in flight, is answered
Finish(r, reply) ==
  /\ last' = Answered(req[r], req[r].transport, reply)
  /\ req' = Remove(r)

\* request r, in flight, is answered by the catch block of its route
FinishCaught(r, error, sent) ==
  /\ last' = Caught(req[r], req[r].transport, error, sent)
  /\ req' = Remove(r)

Init ==
  /\ authEnabled \in BOOLEAN
  /\ transports = [k \in {} |-> 0]
  /\ tr = [t \in TransportIds |-> [state |-> "free", sessionId |-> Undefined]]
  /\ issued = {}
  /\ removed = {}
  /\ deleted = {}
  /\ req = [r \in RequestIds |-> IdleRequest]
  /\ last = Answered(IdleRequest, 0, NoReply)
  /\ call = IdleCall
  /\ posts = 0
  /\ caller = 0
  /\ emit = "none"

\* A request arrives and the onRequest hook answers it: Fastify then runs no
\* route handler.  (The hook and the body parsing that follows it read and
\* write nothing but the request, so a request's arrival, its hook and the
\* route handler up to its first await are one step.)
HookRejects(r) ==
  /\ NextSlot(r)
  /\ \E a \in Arrivals(authEnabled) :
       /\ AuthHook(authEnabled, a.auth) # "pass"
       /\ last' = Answered(a, 0, AuthReply(AuthHook(authEnabled, a.auth)))
  /\ UNCHANGED <<authEnabled, transports, tr, issued, removed, deleted, req>>
  /\ UNCHANGED toolVars

\* fastify.post('/mcp'), up to its first await
PostRoute(r) ==
  /\ NextSlot(r)
  /\ \E a \in Arrivals(authEnabled) :
       /\ a.method = "POST"
       /\ AuthHook(authEnabled, a.auth) = "pass"
       /\ IF PostBranch(transports, a.sid, a.body) = "reuse"
          THEN \* reuse existing session: transport = transports[sessionId]
               LET found == Lookup(transports, Val(a.sid))
               IN IF found.kind = "transport"
                  THEN /\ req' = [req EXCEPT ![r] =
                                    [a EXCEPT !.pc = "serving", !.transport = found.t]]
                       /\ UNCHANGED <<tr, last>>
                  ELSE \* an inherited member has no handleRequest: TypeError, caught
                       /\ last' = Caught(a, 0, NotAFunction, FALSE)
                       /\ UNCHANGED <<tr, req>>
          ELSE IF PostBranch(transports, a.sid, a.body) = "initialize"
          THEN \* new StreamableHTTPServerTransport, onclose set, connect() awaited
               /\ \E t \in TransportIds :
                    /\ tr[t].state = "free"
                    /\ tr' = [tr EXCEPT ![t].state = "connecting"]
                    /\ req' = [req EXCEPT ![r] =
                                 [a EXCEPT !.pc = "connecting", !.transport = t]]
               /\ UNCHANGED last
          ELSE /\ last' = Answered(a, 0, BadSession)
               /\ UNCHANGED <<tr, req>>
  /\ UNCHANGED <<authEnabled, transports, issued, removed, deleted>>
  /\ UNCHANGED toolVars

\* await mcpServer.connect(transport) rejects: the catch block answers
ConnectThrows(r) ==
  /\ req[r].pc = "connecting"
  /\ FinishCaught(r, ConnectFailed, FALSE)
  /\ UNCHANGED <<authEnabled, transports, tr, issued, removed, deleted>>
  /\ UNCHANGED toolVars

\* connect() resolved and await transport.handleRequest() rejects before the
\* transport has drawn a session id: the catch block answers unless the
\* transport had already sent a reply.  The transport is left unregistered.
HandleInitializeThrows(r) ==
  /\ req[r].pc = "connecting"
  /\ \E sent \in BOOLEAN : FinishCaught(r, HandleRequestFailed, sent)
  /\ UNCHANGED <<authEnabled, transports, tr, issued, removed, deleted>>
  /\ UNCHANGED toolVars

\* connect() resolved and transport.handleRequest() takes the initialize
\* request: the transport draws its session id and calls onsessioninitialized
HandleInitialize(r) ==
  /\ req[r].pc = "connecting"
  /\ LET t == req[r].transport
     IN \E id \in sessionIdGenerator(issued) :
          /\ tr' = [tr EXCEPT ![t] = [state |-> "open", sessionId |-> Some(id)]]
          /\ transports' = onsessioninitialized(transports, id, t)
          /\ issued' = issued \cup {id}
  /\ req' = [req EXCEPT ![r].pc = "serving"]
  /\ UNCHANGED <<authEnabled, removed, deleted, last>>
  /\ UNCHANGED toolVars

\* connect() resolved and the transport answers the initialize request itself
\* without starting a session (for instance an unacceptable Accept header)
TransportRefusesInitialize(r) ==
  /\ req[r].pc = "connecting"
  /\ tr' = [tr EXCEPT ![req[r].transport].state = "connected"]
  /\ Finish(r, TransportReply)
  /\ UNCHANGED <<authEnabled, transports, issued, removed, deleted>>
  /\ UNCHANGED toolVars

\* fastify.get('/mcp') and fastify.delete('/mcp'), up to the first await
SessionRoute(r) ==
  /\ NextSlot(r)
  /\ \E a \in Arrivals(authEnabled) :
       /\ a.method \in {"GET", "DELETE"}
       /\ AuthHook(authEnabled, a.auth) = "pass"
       /\ IF ~Resolves(transports, a.sid)
          THEN /\ last' = Answered(a, 0, BadSession)
               /\ UNCHANGED req
          ELSE LET found == Lookup(transports, Val(a.sid))
               IN IF found.kind = "transport"
                  THEN /\ req' = [req EXCEPT ![r] =
                                    [a EXCEPT !.pc = "serving", !.transport = found.t]]
                       /\ UNCHANGED last
                  ELSE \* an inherited member has no handleRequest: TypeError, caught
                       /\ last' = Caught(a, 0, NotAFunction, FALSE)
                       /\ UNCHANGED req
  /\ UNCHANGED <<authEnabled, transports, tr, issued, removed, deleted>>
  /\ UNCHANGED toolVars

\* the transport closes: its onclose callback runs
CloseTransport(t) ==
  /\ transports' = onclose(transports, t)
  /\ removed' = removed \cup (DOMAIN transports \ DOMAIN onclose(transports, t))
  /\ tr' = [tr EXCEPT ![t].state = "closed"]

\* await transport.handleRequest() resolves: the transport has answered;
\* for a DELETE it has closed itself first
TransportResponds(r) ==
  /\ req[r].pc = "serving"
  /\ IF req[r].method = "DELETE"
     THEN /\ CloseTransport(req[r].transport)
          /\ deleted' = deleted \cup {Val(req[r].sid)}
     ELSE UNCHANGED <<transports, removed, tr, deleted>>
  /\ Finish(r, TransportReply)
  /\ UNCHANGED <<authEnabled, issued>>
  /\ UNCHANGED toolVars

\* await transport.handleRequest() rejects: the catch block answers unless
\* the transport had already sent the reply.  A DELETE can fail before or
\* after the transport has closed itself.
HandleRequestThrows(r) ==
  /\ req[r].pc = "serving"
  /\ \E sent \in BOOLEAN : FinishCaught(r, HandleRequestFailed, sent)
  /\ \/ UNCHANGED <<transports, tr, removed>>
     \/ /\ req[r].method = "DELETE"
        /\ CloseTransport(req[r].transport)
  /\ UNCHANGED <<authEnabled, issued, deleted>>
  /\ UNCHANGED toolVars

\* the transport of a live session closes by itself (connection closure)
TransportCloses(t) ==
  /\ tr[t].state = "open"
  /\ CloseTransport(t)
  /\ UNCHANGED <<authEnabled, issued, deleted, req, last>>
  /\ UNCHANGED toolVars

Next ==
  \/ \E r \in RequestIds : HookRejects(r)
  \/ \E r \in RequestIds : PostRoute(r)
  \/ \E r \in RequestIds : ConnectThrows(r)
  \/ \E r \in RequestIds : HandleInitializeThrows(r)
  \/ \E r \in RequestIds : HandleInitialize(r)
  \/ \E r \in RequestIds : TransportRefusesInitialize(r)
  \/ \E r \in RequestIds : SessionRoute(r)
  \/ \E r \in RequestIds : TransportResponds(r)
  \/ \E r \in RequestIds : HandleRequestThrows(r)
  \/ \E t \in TransportIds : TransportCloses(t)

Spec == Init /\ [][Next]_vars

\* postToOllama(url, payloadSchema, ..., payload), up to its await
postToOllama(variant, tool, payload, u, parsed) ==
  /\ call.pc = "idle"
  /\ IF parsed = Undefined
     THEN call' = [pc |-> "done", variant |-> variant, tool |-> tool, input |-> payload,
                   url |-> u, sent |-> Undefined, ev |-> NoEvent,
                   outcome |-> Outcome("ZodError", NoStatus, "ZodError.message")]
     ELSE call' = [pc |-> "awaiting", variant |-> variant, tool |-> tool, input |-> payload,
                   url |-> u, sent |-> parsed, ev |-> NoEvent,
                   outcome |-> Outcome("none", NoStatus, "")]
  /\ posts' = postToOllamaPosts(parsed)

\* webSearch(payload) of either revision
webSearch(variant, payload) ==
  /\ postToOllama(variant, "web_search", payload, Undefined,
                  webSearchPayloadSchema(variant, payload))
  /\ UNCHANGED <<caller, emit>>
  /\ UNCHANGED httpVars

\* webFetch(payload) of either revision
webFetch(variant, payload) ==
  /\ postToOllama(variant, "web_fetch", NoInput, payload.url,
                  webFetchPayloadSchema(variant, payload))
  /\ UNCHANGED <<caller, emit>>
  /\ UNCHANGED httpVars

\* axiosClient.post settles and postToOllama returns or throws
UpstreamSettles(ev) ==
  /\ call.pc = "awaiting"
  /\ call' = [call EXCEPT !.pc = "done", !.ev = ev,
                          !.outcome = postToOllamaSettled(call.variant, ev)]
  /\ UNCHANGED <<posts, caller, emit>>
  /\ UNCHANGED httpVars

\* the caller has taken the result or the error of the invocation
Returns ==
  /\ call.pc = "done"
  /\ call' = IdleCall
  /\ posts' = 0
  /\ UNCHANGED <<caller, emit>>
  /\ UNCHANGED httpVars

ToolNext ==
  \/ \E variant \in ToolsVariants, payload \in WebSearchInputs : webSearch(variant, payload)
  \/ \E variant \in ToolsVariants, u \in UrlArgs : webFetch(variant, [url |-> u])
  \/ \E ev \in UpstreamEvents : UpstreamSettles(ev)
  \/ Returns

ToolSpec == Init /\ [][ToolNext]_vars

\* ------------------------------------------- a tools/call within a session
\* arguments of the tools/call requests a client sends: a good query, an empty one
CallInputs ==
  { [query |-> Some(<<"a">>), max_results |-> [kind |-> "undefined", tenths |-> 0]],
    [query |-> Some(<<>>), max_results |-> [kind |-> "undefined", tenths |-> 0]] }
\* what the upstream does with these calls: it answers, or the timeout passes
CallEvents ==
  { ev \in UpstreamEvents :
      \/ ev.kind = "2xx" /\ ev.wellFormed
      \/ ev.kind = "no-response" /\ ev.message = Some("timeout of 15000ms exceeded") }

\* The transport of a live session hands the tools/call request of POST r to
\* the session's server, whose web_search handler calls webSearch(args).
ToolsCall(r) ==
  /\ req[r].pc = "serving"
  /\ req[r].method = "POST"
  /\ ~isInitializeRequest(req[r].body)
  /\ tr[req[r].transport].state = "open"
  /\ \E variant \in ToolsVariants, payload \in CallInputs :
       postToOllama(variant, "web_search", payload, Undefined,
                    webSearchPayloadSchema(variant, payload))
  /\ caller' = req[r].transport
  /\ emit' = "none"
  /\ UNCHANGED httpVars

\* webSearch has returned or thrown and the server sends the result, or the
\* error, on the transport the request came by: a transport that has closed
\* in the meantime refuses it, and the failure is logged and goes no further.
EmitResult ==
  /\ call.pc = "done"
  /\ caller # 0
  /\ emit' = (IF tr[caller].state = "open" THEN "sent" ELSE "discarded")
  /\ call' = IdleCall
  /\ posts' = 0
  /\ UNCHANGED caller
  /\ UNCHANGED httpVars

CallInit == Init /\ ~authEnabled

CallNext ==
  \/ \E r \in RequestIds : PostRoute(r)
  \/ \E r \in RequestIds : ConnectThrows(r)
  \/ \E r \in RequestIds : HandleInitializeThrows(r)
  \/ \E r \in RequestIds : HandleInitialize(r)
  \/ \E r \in RequestIds : TransportRefusesInitialize(r)
  \/ \E r \in RequestIds : SessionRoute(r)
  \/ \E r \in RequestIds : TransportResponds(r)
  \/ \E r \in RequestIds : HandleRequestThrows(r)
  \/ \E t \in TransportIds : TransportCloses(t)
  \/ \E r \in RequestIds : ToolsCall(r)
  \/ \E ev \in CallEvents : UpstreamSettles(ev)
  \/ EmitResult

\* the server with authentication off and clients that call web_search
CallSpec == CallInit /\ [][CallNext]_vars


TypeOK ==
  /\ authEnabled \in BOOLEAN
  /\ DOMAIN transports \subseteq Uuids
  /\ \A k \in DOMAIN transports : transports[k] \in TransportIds
  /\ issued \subseteq Uuids
  /\ removed \subseteq Uuids
  /\ deleted \subseteq removed
  /\ caller \in TransportIds \cup {0}
  /\ emit \in {"none", "sent", "discarded"}

\* ------------------------------------------------------------ properties
ValidAuth == Some(Bearer_ \o AUTH_TOKEN)
\* the Authorization header is absent or does not start with 'Bearer '
LacksBearer(h) == h = Undefined \/ Len(Val(h)) < 7 \/ SubSeq(Val(h), 1, 7) # Bearer_
\* this step took request r into a route handler's await
Entered(r) == req[r].pc = "idle" /\ req'[r].pc # "idle"
\* this step answered a request in the step of its arrival.  (A step that
\* repeats the previous answer is a stuttering step; the state it starts from
\* is also reached with other previous answers.)
AnsweredAtArrival == last' # last /\ req' = req
\* the request was answered by a route, not by the hook
ByRoute(a) == a.reply.by \notin {"none", "hook"}
Live(sid) == sid # Undefined /\ Val(sid) \in DOMAIN transports

\* C1: with authentication enabled, a request of any method whose
\* Authorization header is absent or does not start with 'Bearer ' is answered
\* 401 with RPC code -32001 by the hook; it enters no route handler, and the step
\* leaves the session map and the transports as they were.
C1_MissingBearerIs401 ==
  [][authEnabled =>
       /\ \A r \in RequestIds : Entered(r) => ~LacksBearer(req'[r].auth)
       /\ (AnsweredAtArrival /\ LacksBearer(last'.auth)) =>
            /\ last'.reply = Reply(401, -32001, "hook")
            /\ transports' = transports
            /\ tr' = tr
            /\ issued' = issued]_vars

\* a DELETE naming a live session was answered 401 and the session is still live
C1_Witness ==
  /\ authEnabled
  /\ last.reply = Reply(401, -32001, "hook")
  /\ last.method = "DELETE"
  /\ last.auth = Some(<<"B", "a", "s", "i", "c", " ", "k", "1">>)
  /\ Live(last.sid)

\* C2: a request bearing an issued session id S enters a handler only while S
\* is a key of the map, and is then bound to the transport whose session id is
\* S; a POST or GET bearing a live S is never answered by the route itself; and
\* once the transport has handled a DELETE bearing S, every request bearing S is
\* answered 400 with RPC code -32000.
C2_SessionResolvesUntilDeleted ==
  [][/\ \A r \in RequestIds :
          (Entered(r) /\ ~Falsy(req'[r].sid)) =>
             /\ Live(req'[r].sid)
             /\ req'[r].transport = transports[Val(req'[r].sid)]
             /\ tr[req'[r].transport].sessionId = req'[r].sid
             /\ Val(req'[r].sid) \notin deleted
     /\ (AnsweredAtArrival /\ ByRoute(last') /\ last'.method \in {"POST", "GET"})
          => ~(last'.sid # Undefined /\ Val(last'.sid) \in DOMAIN transports)
     /\ (AnsweredAtArrival /\ ByRoute(last') /\ last'.sid # Undefined
           /\ Val(last'.sid) \in deleted)
          => /\ last'.reply = Reply(400, -32000, "route")
             /\ transports' = transports]_vars

\* a request bearing a deleted session id was answered 400 while a request
\* bearing the id of a live session is being served by that session's transport
C2_Witness ==
  /\ last.sid # Undefined
  /\ Val(last.sid) \in deleted
  /\ last.reply = Reply(400, -32000, "route")
  /\ \E r \in RequestIds :
       /\ req[r].pc = "serving"
       /\ Live(req[r].sid)
       /\ transports[Val(req[r].sid)] = req[r].transport

\* C3: no two live transports have the same session id, every key of the map
\* leads to the live transport that has this id, and an id that onclose removed
\* from the map is not a key of the map.
C3_OneLiveTransportPerId ==
  /\ \A t1, t2 \in TransportIds :
       (t1 # t2 /\ tr[t1].state = "open" /\ tr[t2].state = "open")
         => tr[t1].sessionId # tr[t2].sessionId
  /\ \A S \in DOMAIN transports :
       /\ tr[transports[S]].state = "open"
       /\ tr[transports[S]].sessionId = Some(S)
  /\ removed \cap DOMAIN transports = {}

\* one session was closed and removed, another one is live
C3_Witness ==
  /\ removed # {}
  /\ DOMAIN transports # {}
  /\ \E t \in TransportIds : tr[t].state = "closed" /\ tr[t].sessionId # Undefined

\* C4: a POST without mcp-session-id header whose body is not an initialize
\* request is answered 400 with RPC code -32000; it enters no handler await, no
\* transport is created or connected and the session map is unchanged.
C4_PostWithoutSessionIs400 ==
  [][/\ \A r \in RequestIds :
          Entered(r) => ~(/\ req'[r].method = "POST"
                          /\ req'[r].sid = Undefined
                          /\ ~isInitializeRequest(req'[r].body))
     /\ (/\ AnsweredAtArrival
         /\ ByRoute(last')
         /\ last'.method = "POST"
         /\ last'.sid = Undefined
         /\ ~isInitializeRequest(last'.body))
          => /\ last'.reply = Reply(400, -32000, "route")
             /\ transports' = transports
             /\ tr' = tr
             /\ issued' = issued]_vars

\* such a POST was answered 400 while a session is live
C4_Witness ==
  /\ last.method = "POST"
  /\ last.sid = Undefined
  /\ last.body = "other"
  /\ last.reply = Reply(400, -32000, "route")
  /\ DOMAIN transports # {}

\* the request needs a session and names none that is a key of the map
UnknownSession(a, map) ==
  \/ a.method \in {"GET", "DELETE"} /\ (a.sid = Undefined \/ Val(a.sid) \notin DOMAIN map)
  \/ a.method = "POST" /\ a.sid # Undefined /\ Val(a.sid) \notin DOMAIN map

\* C5: a GET or DELETE whose mcp-session-id is missing or no key of the map,
\* and a POST whose mcp-session-id is present and no key of the map, is answered
\* 400 with RPC code -32000, and the map is unchanged.
C5_UnknownSessionIs400 ==
  [][/\ \A r \in RequestIds : Entered(r) => ~UnknownSession(req'[r], transports)
     /\ (AnsweredAtArrival /\ ByRoute(last') /\ UnknownSession(last', transports))
          => /\ last'.reply = Reply(400, -32000, "route")
             /\ transports' = transports]_vars

\* C6: with authentication enabled, a request whose header is 'Bearer <token>'
\* with a token other than the secret is answered 403 with RPC code -32002 by
\* the hook and changes nothing; only a request whose header is 'Bearer '
\* followed by exactly the secret enters a route handler or is answered by one.
C6_WrongTokenIs403 ==
  [][authEnabled =>
       /\ \A r \in RequestIds : Entered(r) => req'[r].auth = ValidAuth
       /\ (AnsweredAtArrival /\ ByRoute(last')) => last'.auth = ValidAuth
       /\ (AnsweredAtArrival /\ ~LacksBearer(last'.auth) /\ last'.auth # ValidAuth) =>
            /\ last'.reply = Reply(403, -32002, "hook")
            /\ transports' = transports
            /\ tr' = tr]_vars

\* a POST initialize whose token is a proper prefix of the secret was answered 403
C6_Witness ==
  /\ authEnabled
  /\ last.auth = Some(Bearer_ \o <<"k">>)
  /\ last.method = "POST"
  /\ last.body = "initialize"
  /\ last.reply = Reply(403, -32002, "hook")

\* the request came without a session and started one
StartedSession(q) == q.method = "POST" /\ isInitializeRequest(q.body) /\ Falsy(q.sid)

\* C7: when the transport of an initialize request registers its session, the
\* map gains exactly one key, which was no key before, every other entry stays
\* as it was, and the id and the transport differ from those of every other
\* initialize request in flight.
C7_ConcurrentInitializeDistinct ==
  [][\A r \in RequestIds :
       (req[r].pc = "connecting" /\ tr'[req[r].transport].state = "open") =>
          LET t == req[r].transport
              id == Val(tr'[t].sessionId)
          IN /\ id \notin DOMAIN transports
             /\ DOMAIN transports' = DOMAIN transports \cup {id}
             /\ transports'[id] = t
             /\ \A k \in DOMAIN transports : transports'[k] = transports[k]
             /\ \A r2 \in RequestIds \ {r} :
                  (req[r2].pc # "idle" /\ StartedSession(req[r2])) =>
                     /\ req[r2].transport # t
                     /\ tr[req[r2].transport].sessionId # Some(id)]_vars

\* two initialize requests are in flight together, both sessions are registered
C7_Witness ==
  \E r1, r2 \in RequestIds :
    /\ r1 # r2
    /\ req[r1].pc = "serving" /\ StartedSession(req[r1])
    /\ req[r2].pc = "serving" /\ StartedSession(req[r2])
    /\ tr[req[r1].transport].sessionId # tr[req[r2].transport].sessionId
    /\ Cardinality(DOMAIN transports) = 2

\* the max_results argument is given and is not an integer from 1 to 20
OutOfRange(m) ==
  /\ m.kind # "undefined"
  /\ \/ m.kind # "number"
     \/ m.tenths % 10 # 0
     \/ m.tenths < 10
     \/ m.tenths > 200
\* every character of s is white space (so is the empty string)
Blank(s) == \A i \in 1..Len(s) : s[i] \in WhiteSpace

\* C8: a web_search whose max_results is outside [1,20] or is no integer ends
\* with a validation error and makes no outbound POST.
C8_MaxResultsOutOfRangeRejected ==
  (call.pc # "idle" /\ OutOfRange(call.input.max_results)) =>
     /\ call.pc = "done"
     /\ call.outcome.kind = "ZodError"
     /\ call.sent = Undefined
     /\ posts = 0

\* max_results = 21 with a good query was rejected by the revision whose limit is 20
C8_Witness ==
  /\ call.pc = "done"
  /\ call.variant = "part_001"
  /\ call.input.query = Some(<<"a">>)
  /\ call.input.max_results = [kind |-> "number", tenths |-> 210]
  /\ call.outcome.kind = "ZodError"
  /\ posts = 0

\* C9: a web_search with a query that has a non-blank character and an integer
\* max_results from 1 to 20 is posted upstream with that max_results, and with 5
\* when max_results is omitted.
C9_MaxResultsInRangeAccepted ==
  (/\ call.pc # "idle"
   /\ call.input.query # Undefined
   /\ ~Blank(Val(call.input.query))
   /\ ~OutOfRange(call.input.max_results)) =>
     /\ call.sent # Undefined
     /\ posts = 1
     /\ Val(call.sent).max_results =
          (IF call.input.max_results.kind = "undefined" THEN 5
           ELSE call.input.max_results.tenths \div 10)

\* C10: a web_search whose query is empty or all white space ends with a
\* validation error and makes no outbound POST.
C10_BlankQueryRejected ==
  (call.pc # "idle" /\ call.input.query # Undefined /\ Blank(Val(call.input.query))) =>
     /\ call.pc = "done"
     /\ call.outcome.kind = "ZodError"
     /\ posts = 0

\* the value C11 says goes upstream for the url argument u: the trimmed
\* argument, with 'https://' before it when it has no http:// or https:// scheme
Coerced(u) ==
  IF URL_PROTOCOL_REGEX(Trim(u)) THEN Trim(u) ELSE Https_ \o Trim(u)

\* C11: a web_fetch whose url argument lacks an http(s) scheme posts 'https://'
\* followed by the trimmed argument, one whose argument has a scheme posts the
\* argument unchanged, and one whose coerced value does not parse as a URL
\* ends with a validation error and makes no outbound POST.
C11_UrlCoercedToHttps ==
  (call.pc # "idle" /\ call.tool = "web_fetch" /\ call.url # Undefined) =>
     IF URLParses(Coerced(Val(call.url)))
     THEN /\ call.sent = Some([url |-> Coerced(Val(call.url))])
          /\ posts = 1
     ELSE /\ call.pc = "done"
          /\ call.outcome.kind = "ZodError"
          /\ call.sent = Undefined
          /\ posts = 0

\* the upstream response body as text
BodyText(data) == IF data.type = "string" THEN data.value ELSE JSONstringify(data)
StatusEvents == { ev \in UpstreamEvents : ev.kind = "status" }

\* C12: when the upstream answers with a non-2xx status s, the call ends with
\* an OllamaApiError whose status is s and whose message ends with the body
\* of the upstream response.
C12_StatusErrorCarriesStatusAndBody ==
  (call.pc = "done" /\ call.ev.kind = "status") =>
     /\ call.outcome.kind = "OllamaApiError"
     /\ call.outcome.status = call.ev.status
     /\ \E s \in UpstreamStatuses :
          call.outcome.message =
            "Ollama API responded with status " \o ToString(s) \o ": "
              \o BodyText(call.ev.data)

\* a web_fetch got a 503 with a JSON body and failed with status 503
C12_Witness ==
  /\ call.pc = "done"
  /\ call.tool = "web_fetch"
  /\ call.ev.kind = "status"
  /\ call.ev.status = 503
  /\ call.ev.data.type = "object"
  /\ call.outcome.status = 503

\* C13: when the upstream call gets no response, the call ends with an
\* OllamaApiError without status whose message is none of the messages made
\* for a response with a status.
C13_NoResponseErrorHasNoStatus ==
  (call.pc = "done" /\ call.ev.kind = "no-response") =>
     /\ call.outcome.kind = "OllamaApiError"
     /\ call.outcome.status = NoStatus
     /\ call.outcome.message \notin { formatAxiosError(ev).message : ev \in StatusEvents }

\* a web_search ran into the timeout and failed without status
C13_Witness ==
  /\ call.pc = "done"
  /\ call.tool = "web_search"
  /\ call.ev.kind = "no-response"
  /\ call.ev.message = Some("timeout of 15000ms exceeded")
  /\ call.outcome.status = NoStatus
  /\ call.outcome.message = "No response received from Ollama API."

\* the arguments of the invocation pass the validation of its revision
ArgumentsPass ==
  IF call.tool = "web_search"
  THEN webSearchPayloadSchema(call.variant, call.input) # Undefined
  ELSE webFetchPayloadSchema(call.variant, [url |-> call.url]) # Undefined

\* C14: an invocation of webSearch or webFetch has made one outbound POST if
\* its arguments pass validation and none if they do not, also after the POST
\* has failed.
C14_AtMostOnePost ==
  /\ posts \in {0, 1}
  /\ call.pc # "idle" =>
       /\ posts = (IF ArgumentsPass THEN 1 ELSE 0)
       /\ (call.pc = "awaiting" \/ call.ev.kind # "none") => posts = 1

\* a web_fetch whose url was coerced failed on a 503 after its one POST
C14_Witness ==
  /\ call.pc = "done"
  /\ call.tool = "web_fetch"
  /\ call.url = Some(Page)
  /\ call.outcome.status = 503
  /\ posts = 1

\* C20: an invocation whose upstream call failed (no response, a non-2xx
\* response, a 2xx body of the wrong shape, any other exception) ends with an
\* OllamaApiError, which has a status exactly when the upstream answered with
\* a non-2xx status.
C20_EveryFailureIsOllamaApiError ==
  (/\ call.pc = "done"
   /\ call.ev.kind # "none"
   /\ (call.ev.kind = "2xx" => ~call.ev.wellFormed)) =>
     /\ call.outcome.kind = "OllamaApiError"
     /\ (call.outcome.status # NoStatus) <=> (call.ev.kind = "status")
     /\ call.ev.kind = "status" => call.outcome.status = call.ev.status

\* the header carries a value of the kind randomUUID makes
BearsUuid(sid) == sid # Undefined /\ Val(sid) \in Uuids

\* C15: the session map gains a key only in the step in which the transport
\* of an initialize request in flight, which had no session id until then,
\* takes the request and calls onsessioninitialized with its new id; a session
\* that is still initializing has no id, and a request bearing an id that is
\* not (yet) a key of the map is answered 400 with RPC code -32000 and enters
\* no handler.
C15_KeyOnlyWhenInitialized ==
  [][/\ \A k \in DOMAIN transports' \ DOMAIN transports :
          \E r \in RequestIds :
             /\ req[r].pc = "connecting"
             /\ StartedSession(req[r])
             /\ tr[req[r].transport] = [state |-> "connecting", sessionId |-> Undefined]
             /\ tr'[req[r].transport] = [state |-> "open", sessionId |-> Some(k)]
             /\ transports'[k] = req[r].transport
     /\ \A r \in RequestIds :
          (Entered(r) /\ BearsUuid(req'[r].sid)) => Val(req'[r].sid) \in DOMAIN transports
     /\ (/\ AnsweredAtArrival
         /\ ByRoute(last')
         /\ BearsUuid(last'.sid)
         /\ Val(last'.sid) \notin DOMAIN transports)
          => /\ last'.reply = Reply(400, -32000, "route")
             /\ transports' = transports]_vars

\* while an initialize request is connecting its transport, a request bearing
\* an id that randomUUID has not returned yet was answered 400
C15_Witness ==
  /\ \E r \in RequestIds : req[r].pc = "connecting" /\ tr[req[r].transport].sessionId = Undefined
  /\ BearsUuid(last.sid)
  /\ Val(last.sid) \notin issued
  /\ last.reply = Reply(400, -32000, "route")

\* transport t, of a live session, closes in this step
Closes(t) == tr[t].state = "open" /\ tr'[t].state = "closed"

\* C16: when the transport of a session closes, by a DELETE or by itself, the
\* id of this session is removed from the map and every other entry stays as
\* it was; no key leaves the map in any other way.
C16_CloseRemovesOnlyOwnKey ==
  [][/\ \A t \in TransportIds :
          Closes(t) =>
             /\ Val(tr[t].sessionId) \in DOMAIN transports
             /\ DOMAIN transports' = DOMAIN transports \ {Val(tr[t].sessionId)}
             /\ \A k \in DOMAIN transports' : transports'[k] = transports[k]
     /\ \A k \in DOMAIN transports \ DOMAIN transports' :
          \E t \in TransportIds : Closes(t) /\ tr[t].sessionId = Some(k)]_vars

\* a DELETE closed one session and the other session is still in the map
C16_Witness ==
  /\ last.method = "DELETE"
  /\ last.reply = TransportReply
  /\ Val(last.sid) \in deleted
  /\ \E k \in DOMAIN transports :
       /\ k # Val(last.sid)
       /\ tr[transports[k]] = [state |-> "open", sessionId |-> Some(k)]

\* this step ran the catch block of a route.  (A step that repeats the
\* previous answer is not told from one that answers nothing; the state it
\* starts from is also reached with other previous answers.)
CaughtStep == last'.error # NoError /\ last' # last

\* C18: when a route catches an exception, the client gets HTTP 500 with RPC
\* code -32603 and id null, unless a reply was already sent, and the error is
\* logged; the other requests in flight, the other transports and the other
\* entries of the map stay as they were.
C18_ExceptionIs500 ==
  [][CaughtStep =>
       /\ last'.reply = (IF last'.sent THEN TransportReply ELSE Reply(500, -32603, "catch"))
       /\ last'.error \in {NotAFunction, ConnectFailed, HandleRequestFailed}
       /\ \/ req' = req
          \/ \E r \in RequestIds : req[r].pc # "idle" /\ req' = Remove(r)
       /\ issued' = issued
       /\ \A t \in TransportIds :
            tr'[t] # tr[t] => (t = last'.transport /\ last'.method = "DELETE" /\ Closes(t))
       /\ \A k \in DOMAIN transports :
            \/ k \in DOMAIN transports' /\ transports'[k] = transports[k]
            \/ last'.method = "DELETE" /\ last'.sid = Some(k)
       /\ DOMAIN transports' \subseteq DOMAIN transports]_vars

\* a request of one session failed in handleRequest and got the 500 while a
\* request of another session is being served
C18_Witness ==
  /\ last.reply = Reply(500, -32603, "catch")
  /\ last.error = HandleRequestFailed
  /\ \E r \in RequestIds :
       /\ req[r].pc = "serving"
       /\ req[r].transport # last.transport
       /\ Live(req[r].sid)

\* r1 and r2 are POST requests in flight that bear the same session id
SameSession(r1, r2) ==
  /\ req[r1].pc # "idle" /\ req[r1].method = "POST" /\ ~Falsy(req[r1].sid)
  /\ req[r2].pc # "idle" /\ req[r2].method = "POST" /\ req[r2].sid = req[r1].sid
\* this step answers request r
Answers(r) ==
  /\ req[r].pc # "idle"
  /\ req' = Remove(r)
  /\ last'.method = req[r].method /\ last'.body = req[r].body /\ last'.sid = req[r].sid

Outstanding == caller # 0 /\ call.pc \in {"awaiting", "done"}

Registers(r, k) ==
  /\ req[r].pc = "connecting"
  /\ req[r].method = "POST"
  /\ isInitializeRequest(req[r].body)
  /\ transports'[k] = req[r].transport
  /\ tr'[req[r].transport].sessionId = Some(k)
\* what C21 says of a POST bearing the id of a live session, and of GET and
\* DELETE: the POST goes to the transport of that session, whatever its body,
\* and no transport is made for it; no step that takes in, turns away or
\* answers a GET or a DELETE adds a key
ReusesAndNeverAdds ==
  /\ \A r \in RequestIds :
       (Entered(r) /\ req'[r].method = "POST" /\ Live(req'[r].sid)) =>
          /\ req'[r].pc = "serving"
          /\ req'[r].transport = transports[Val(req'[r].sid)]
          /\ tr' = tr
          /\ transports' = transports
  /\ (AnsweredAtArrival /\ ByRoute(last') /\ last'.method = "POST") => ~Live(last'.sid)
  /\ \A r \in RequestIds :
       (Entered(r) /\ req'[r].method \in {"GET", "DELETE"}) => transports' = transports
  /\ (AnsweredAtArrival /\ last'.method \in {"GET", "DELETE"}) => transports' = transports
  /\ \A r \in RequestIds :
       (Answers(r) /\ req[r].method \in {"GET", "DELETE"}) =>
          DOMAIN transports' \subseteq DOMAIN transports

\* C21: a key enters the session map only for the transport of a
\* POST that came without mcp-session-id header and with an initialize body; a
\* POST bearing the id of a live session is handed to that session's
\* transport also when its body is an initialize request; GET and DELETE add
\* no key.
C21_EntryOnlyByHeaderlessInitialize ==
  [][/\ \A k \in DOMAIN transports' \ DOMAIN transports :
          \E r \in RequestIds : Registers(r, k) /\ req[r].sid = Undefined
     /\ ReusesAndNeverAdds]_vars

\* the transports the session map leads to
Registered(map) == { map[k] : k \in DOMAIN map }
\* transport t was made for an initialize request that failed before the
\* transport had a session: no request holds it and it was never registered
Failed(t) ==
  /\ tr[t].state = "connecting"
  /\ \A r \in RequestIds : req[r].pc = "idle" \/ req[r].transport # t
\* this step is the catch block of the POST route answering initialize
\* request r, whose transport has no session yet
FailsBeforeHandshake(r) ==
  /\ req[r].pc = "connecting"
  /\ req' = Remove(r)
  /\ last'.error # NoError
  /\ last'.transport = req[r].transport
\* what C22 says of the session map and of the failed transport: neither the
\* step that makes the transport nor the step that fails changes the map, and
\* the failed transport has no session id and is no value of the map, then
\* and ever after
FailureLeavesNoSession ==
  /\ \A r \in RequestIds :
       (Entered(r) /\ req'[r].pc = "connecting") => transports' = transports
  /\ \A r \in RequestIds :
       FailsBeforeHandshake(r) =>
          /\ transports' = transports
          /\ issued' = issued
          /\ tr'[req[r].transport].sessionId = Undefined
          /\ req[r].transport \notin Registered(transports')
  /\ \A t \in TransportIds :
       Failed(t) =>
          /\ tr'[t] = tr[t]
          /\ t \notin Registered(transports')
          /\ \A r \in RequestIds : req'[r].pc = "idle" \/ req'[r].transport # t

\* C22 as stated: when an initialize POST fails after its transport was made
\* (connect() or handleRequest() throws before the transport has a session),
\* the client gets HTTP 500 with RPC code -32603, no step of the request
\* changes the session map, and the transport never has an id that resolves.
C22_FailedInitializeAlways500 ==
  [][/\ \A r \in RequestIds :
          FailsBeforeHandshake(r) => last'.reply = Reply(500, -32603, "catch")
     /\ FailureLeavesNoSession]_vars

\* C22 as amended: the client gets HTTP 500 with RPC code -32603 unless the
\* transport had already sent a reply, which connect() never has; the rest as
\* stated.
C22_FailedInitializeLeavesNoSession ==
  [][/\ \A r \in RequestIds :
          FailsBeforeHandshake(r) =>
             /\ last'.reply =
                  (IF last'.sent THEN TransportReply ELSE Reply(500, -32603, "catch"))
             /\ last'.error = ConnectFailed => ~last'.sent
     /\ FailureLeavesNoSession]_vars

\* an initialize POST failed in handleRequest and got the 500; its transport
\* is left without session, while the session of another initialize POST is
\* live and a third transport cannot be made
C22_Witness ==
  /\ last.reply = Reply(500, -32603, "catch")
  /\ last.error = HandleRequestFailed
  /\ StartedSession(last)
  /\ last.transport # 0
  /\ Failed(last.transport)
  /\ tr[last.transport].sessionId = Undefined
  /\ DOMAIN transports # {}
  /\ last.transport \notin Registered(transports)

\* the previous answer was given by the hook to a request with the same
\* method and the same Authorization header as the one answered in this step
SameCredentialsRejectedBefore ==
  /\ last.reply.by = "hook"
  /\ last.auth = last'.auth
  /\ last.method = last'.method

\* C23: with authentication enabled, a request whose Authorization header is
\* not 'Bearer ' followed by the secret is answered by the hook with 401 or
\* 403 and reaches no route, and its answer is the answer the hook gave
\* before to a request with the same method and Authorization header,
\* whatever the mcp-session-id headers and the bodies of the two requests and
\* whatever became of the session map between them; the answer changes
\* neither the map nor a transport.
C23_AuthFailureIndependentOfSession ==
  [][authEnabled =>
       /\ \A r \in RequestIds : Entered(r) => req'[r].auth = ValidAuth
       /\ (AnsweredAtArrival /\ last'.auth # ValidAuth) =>
            /\ last'.reply.by = "hook"
            /\ last'.reply.status \in {401, 403}
            /\ SameCredentialsRejectedBefore => last'.reply = last.reply
            /\ transports' = transports
            /\ tr' = tr]_vars

\* a POST with a wrong token and a tools request as body, bearing the id of
\* one of two live sessions, was answered 403 by the hook, after another
\* session had been closed
C23_Witness ==
  /\ authEnabled
  /\ last.reply = Reply(403, -32002, "hook")
  /\ last.method = "POST"
  /\ last.body = "other"
  /\ last.auth = Some(Bearer_ \o <<"k">>)
  /\ Live(last.sid)
  /\ removed # {}

====
